---- MODULE Spec2Model ----
(***************************************************************************)
(* State-machine model of AdvancedAudioProcessor                           *)
(* (src/agents/advanced_audio_processor.py): one pipeline instance serving *)
(* one audio stream, driven by process_audio_stream, update_settings and   *)
(* reset_adaptation.                                                       *)
(*                                                                         *)
(* Numbers.  A settings value is a tagged record [t, v]: t is the Python   *)
(* type of the stored object, v an integer.  A "float" v is in hundredths  *)
(* (0.7 is F(70), -20.0 dB is F(-2000)); an "int" v is the integer itself; *)
(* a "bool" v is 0/1; a "str" or "dict" v indexes a literal.               *)
(*                                                                         *)
(* Audio.  A buffer is abstracted by the observations the code makes on    *)
(* it: its length, whether the voice-activity detector flags any of the    *)
(* first five frames, its RMS at the gain stage (millionths) and the SNR   *)
(* improvement the adaptive controller measures on it (dB).  The audio     *)
(* flowing through the stages is [len, ops]: its length and the sequence   *)
(* of stages that produced a new buffer from it; a stage that returns its  *)
(* argument leaves ops unchanged.                                          *)
(*                                                                         *)
(* Construction.  built records the sample rate and the equaliser filters  *)
(* of the instance constructed last; the stream-processing specifications  *)
(* keep the default 16000 Hz instance.                                     *)
(*                                                                         *)
(* Probes.  Where a stage computes sample by sample, the buffer carries    *)
(* the few values the model follows through it: its peak at the gain       *)
(* stage (thousandths) and whether rescaling that peak to 0.95 rounds up   *)
(* in float32, the magnitude of one frequency bin of one frame             *)
(* and that bin's mean over the first five frames (units of 1e-4), and     *)
(* its first samples at the compressor (units of 1e-5).  A negative mag    *)
(* and an empty head mean that nothing is followed.                        *)
(***************************************************************************)
EXTENDS Integers, Sequences, FiniteSets, TLC

VARIABLES
    settings,            \* self.settings (AudioProcessingSettings)
    noise_profile,       \* self.noise_profile
    gain_smoothed,       \* self.gain_smoothed (thousandths)
    compressor_envelope, \* self.compressor_envelope (thousandths)
    adaptation_history,  \* self.adaptation_history
    metrics_history,     \* self.metrics_history
    processing_stats,    \* self.processing_stats
    environment_model,   \* self.environment_model
    last,                \* what the latest call did (observation only)
    since_reset,         \* process calls since the latest reset_adaptation, -1 before any
    budget,              \* calls the exploration may still make
    peer,                \* a second instance, serving another stream
    built                \* sample rate and eq_filters of the instance constructed last

vars == <<settings, noise_profile, gain_smoothed, compressor_envelope,
          adaptation_history, metrics_history, processing_stats,
          environment_model, last, since_reset, budget, peer, built>>

-----------------------------------------------------------------------------
(* Bounds of the exploration *)

\* Calls explored from a freshly constructed instance.
MaxCalls == 3

\* Calls explored from an instance warmed up by a script.
MaxSteps == 2

\* Longest run of repeated process calls in a warm-up script.
MaxWarm == 16

-----------------------------------------------------------------------------
(* Program constants *)

sample_rate == 16000

fft_size == 512

NoiseProfileInitLen == 512

HistoryCap == 100

MetricsCap == 100

AdaptWindow == 10

\* padlen of scipy.signal.filtfilt is 3 * max(len(a), len(b)); the input
\* must be longer.  A 2nd-order high-pass has 3 coefficients, a 4th-order
\* high-pass 5, a 4th-order Butterworth band-pass 9.
PadLenOrder2 == 9

PadLenOrder4 == 15

PadLenBand4 == 27

\* The pass-through filter ([1.0], [1.0]) has one coefficient.
PadLenPassThrough == 3

-----------------------------------------------------------------------------
(* Values *)

F(x) == [t |-> "float", v |-> x]
I(n) == [t |-> "int", v |-> n]
B(b) == [t |-> "bool", v |-> IF b THEN 1 ELSE 0]
S(i) == [t |-> "str", v |-> i]
D(i) == [t |-> "dict", v |-> i]

\* Python truthiness of a stored value (the literals used are non-empty).
Truthy(x) == IF x.t \in {"bool", "float", "int"} THEN x.v # 0 ELSE TRUE

IsNumber(x) == x.t \in {"bool", "float", "int"}

\* The numeric value of x in hundredths.
Num(x) == IF x.t = "float" THEN x.v ELSE x.v * 100

Min(a, b) == IF a < b THEN a ELSE b
Max(a, b) == IF a > b THEN a ELSE b

Abs(x) == IF x < 0 THEN -x ELSE x

\* n / d rounded to the nearest integer, as a float operation rounds to the
\* nearest representable value (d > 0).
RoundDiv(n, d) ==
    IF n >= 0 THEN (2 * n + d) \div (2 * d) ELSE -((2 * (-n) + d) \div (2 * d))

\* The integer square root.
Isqrt(x) == CHOOSE k \in 0..1000 : k * k <= x /\ x < (k + 1) * (k + 1)

RECURSIVE SumSeq(_)
SumSeq(s) == IF s = <<>> THEN 0 ELSE Head(s) + SumSeq(Tail(s))

\* s[-n:]
LastN(s, n) == IF Len(s) <= n THEN s ELSE SubSeq(s, Len(s) - n + 1, Len(s))

Modes == {"voice_chat", "conference", "broadcast", "music", "noise_reduction"}

\* eq_bands literal 1: the constructor's five bands.
EqBandsDefault == 1

\* eq_bands literal 2: every band at 0 dB.
EqBandsFlat == 2

\* eq_bands literal 3: every band within 0.1 dB of 0.
EqBandsFine == 3

DefaultSettings ==
    [noise_suppression_enabled  |-> B(TRUE),
     noise_suppression_strength |-> F(70),
     adaptive_noise_suppression |-> B(TRUE),
     auto_gain_control          |-> B(TRUE),
     target_level_db            |-> F(-2000),
     max_gain_db                |-> F(3000),
     gain_smoothing             |-> F(95),
     echo_cancellation_enabled  |-> B(TRUE),
     echo_delay_ms              |-> I(50),
     echo_suppression_db        |-> F(4000),
     eq_enabled                 |-> B(TRUE),
     eq_bands                   |-> D(EqBandsDefault),
     compressor_enabled         |-> B(TRUE),
     compressor_ratio           |-> F(300),
     compressor_threshold_db    |-> F(-2500),
     voice_enhancement          |-> B(TRUE),
     breath_reduction           |-> B(TRUE),
     de_essing                  |-> B(TRUE),
     adaptive_processing        |-> B(TRUE),
     learning_rate              |-> F(1)]

Fields == DOMAIN DefaultSettings

EmptyEnvironment ==
    [noise_characteristics |-> {}, room_acoustics |-> {}, user_voice_profile |-> {}]

InitStats ==
    [total_samples_processed |-> 0, noise_reduction_events |-> 0,
     gain_adjustments |-> 0, echo_cancellations |-> 0]

\* A buffer of the given length, voicing, RMS at the gain stage and measured
\* improvement that is not all zeros and carries no bin or sample probe.
Buf(len, voiced, rms, imp) ==
    [len |-> len, voiced |-> voiced, rms |-> rms, imp |-> imp,
     peak |-> IF rms = 0 THEN 0 ELSE 300, up |-> FALSE, zero |-> FALSE,
     mag |-> -1, mean |-> -1, head |-> <<>>]

\* The buffer observation and call record used where none applies.
NoBuffer == Buf(0, FALSE, 0, 0)

\* The metrics record of a call that returned none.
NoMetrics ==
    [signal_to_noise_ratio |-> "none", rms_level |-> "none",
     peak_level |-> "none", detected_noise_types |-> "none"]

NoCall ==
    [op |-> "init", mode |-> "", buf |-> NoBuffer, args |-> <<>>,
     exc |-> "none", at |-> "", seen |-> DefaultSettings,
     used |-> F(0), prior |-> F(0), adapt |-> "none", ops |-> <<>>,
     ran |-> <<>>, peak |-> -1, gain |-> -1, env |-> <<>>, targets |-> <<>>,
     eq |-> <<>>, zero |-> FALSE, metrics |-> NoMetrics,
     out |-> -1, istft |-> -1, src |-> <<>>]

\* The instance after __init__.
Constructed ==
    [settings |-> DefaultSettings,
     noise_profile |-> [bins |-> NoiseProfileInitLen, from |-> {}],
     gain_smoothed |-> 1000,
     compressor_envelope |-> 0,
     adaptation_history |-> <<>>,
     metrics_history |-> <<>>,
     processing_stats |-> InitStats,
     environment_model |-> EmptyEnvironment,
     last |-> NoCall,
     since_reset |-> -1]

-----------------------------------------------------------------------------
(* The stages of process_audio_stream.  Each takes and returns the call's    *)
(* context c: the instance attributes as mutated so far (c.s settings, c.np  *)
(* noise profile, c.g smoothed gain, c.h adaptation history, c.m metrics     *)
(* history, c.st counters), the audio in flight and, once a stage has        *)
(* raised, the exception (c.exc) and where (c.at).  An exception leaves the  *)
(* attributes as they were when it was raised and skips the rest.            *)

Raise(c, type, stage) == [c EXCEPT !.exc = type, !.at = stage]

Produced(c, stage) == [c EXCEPT !.audio.ops = Append(@, stage)]

\* The fixed overlay of each mode; MUSIC has no entry.
mode_settings ==
    [voice_chat |->
        [noise_suppression_strength |-> F(80), target_level_db |-> F(-2000),
         compressor_ratio |-> F(300), voice_enhancement |-> B(TRUE)],
     conference |->
        [noise_suppression_strength |-> F(90), target_level_db |-> F(-1800),
         compressor_ratio |-> F(400), voice_enhancement |-> B(TRUE)],
     broadcast |->
        [noise_suppression_strength |-> F(95), target_level_db |-> F(-1600),
         compressor_ratio |-> F(600), voice_enhancement |-> B(TRUE)],
     noise_reduction |->
        [noise_suppression_strength |-> F(95), target_level_db |-> F(-2200),
         compressor_ratio |-> F(200), voice_enhancement |-> B(FALSE)]]

OverlayFields ==
    {"noise_suppression_strength", "target_level_db", "compressor_ratio",
     "voice_enhancement"}

\* hasattr(self.settings, key): a dataclass field, or an attribute every
\* Python object has.
ObjectAttributes == {"__class__"}

hasattr(s, key) == key \in DOMAIN s \/ key \in ObjectAttributes

_adapt_settings_for_mode(s, mode) ==
    IF mode \in DOMAIN mode_settings
    THEN [k \in DOMAIN s |->
            IF k \in DOMAIN mode_settings[mode] /\ hasattr(s, k)
            THEN mode_settings[mode][k] ELSE s[k]]
    ELSE s

RefreshedProfile_EveryBuffer(np, b) == [bins |-> fft_size \div 2 + 1, from |-> {b}]

\* The stored profile after the refresh test of lines 408-411: replaced by
\* the mean magnitude of the buffer's first five frames (one value per STFT
\* bin) when none of them is flagged as voice.
RefreshedProfile(np, b) ==
    IF ~b.voiced THEN [bins |-> fft_size \div 2 + 1, from |-> {b}] ELSE np

\* signal_power / (signal_power + noise_power + 1e-8) in thousandths, for a
\* bin of magnitude mag against a profile value noise (units of 1e-4, so
\* that the powers are in units of 1e-8).
WienerRatio(mag, noise) == (mag * mag * 1000) \div (mag * mag + noise * noise + 1)

\* (r / 1000) ** (s / 100) in thousandths for the ratios and overlay
\* strengths followed; the other cases of Pow are exact.
PowTable ==
    [r \in {99, 499, 500, 999}, s \in {70, 80, 90, 95} |->
        CASE r = 99  -> (CASE s = 70 -> 198 [] s = 80 -> 157 [] s = 90 -> 125 [] s = 95 -> 111)
          [] r = 499 -> (CASE s = 70 -> 615 [] s = 80 -> 573 [] s = 90 -> 535 [] s = 95 -> 517)
          [] r = 500 -> (CASE s = 70 -> 616 [] s = 80 -> 574 [] s = 90 -> 536 [] s = 95 -> 518)
          [] r = 999 -> 999]

\* wiener_gain ** strength (numpy: x ** 0 is 1, also for x = 0).
Pow(r, s) ==
    IF s = 0 THEN 1000
    ELSE IF r = 0 THEN 0
    ELSE IF s = 100 THEN r
    ELSE IF s = 50 THEN Isqrt(r * 1000)
    ELSE PowTable[r, s]

WienerGain_NoFloor(mag, noise, s) == Pow(WienerRatio(mag, noise), s)

\* Lines 414-426: the gain applied to the bin, in thousandths.
WienerGain(mag, noise, s) == Max(Pow(WienerRatio(mag, noise), s), 100)

\* The stored profile's value at the followed bin; np.zeros before any
\* refresh.
ProfileAt(np) == IF np.from = {} THEN 0 ELSE (CHOOSE b \in np.from : TRUE).mean

\* The length of scipy.signal.istft's result for the stft of n >= fft_size
\* samples (nperseg = fft_size, noverlap = fft_size // 2, zero boundary,
\* padded): stft pads the input to a whole number of hops and istft removes
\* the boundary extension only.
IstftLength(n) ==
    LET nstep == fft_size \div 2
    IN  n + ((nstep - ((n - fft_size) % nstep)) % nstep)

\* np.resize(a, n) for len(a) = m: sample i of the result (from 1) is
\* sample ((i - 1) mod m) + 1 of a; the result has n samples.
ResizedFrom(m, n, i) == ((i - 1) % m) + 1

ResizedLength_Unresized(m, n) == m

\* Lines 440-441: the length of filtered_audio after the length test.
ResizedLength(m, n) == IF m # n THEN n ELSE m

\* Lines 398-445: transform, profile refresh, Wiener gain, inverse.
SuppressSpectrally(c, b) ==
    LET c1 == [c EXCEPT !.np = RefreshedProfile(c.np, b)]
        strength == c1.s.noise_suppression_strength
    IN  IF c1.np.bins # fft_size \div 2 + 1
        THEN Raise(c1, "ValueError", "noise_suppression")
        ELSE IF ~IsNumber(strength)
        THEN Raise(c1, "TypeError", "noise_suppression")
        ELSE Produced([c1 EXCEPT
                 !.audio.len = ResizedLength(IstftLength(c.audio.len), c.audio.len),
                 !.istft = IstftLength(c.audio.len),
                 !.src = <<ResizedFrom(IstftLength(c.audio.len), c.audio.len, 1),
                           ResizedFrom(IstftLength(c.audio.len), c.audio.len,
                                       c.audio.len)>>,
                 !.used = strength,
                 !.gain = IF b.mag < 0 \/ ProfileAt(c1.np) < 0 THEN -1
                          ELSE WienerGain(b.mag, ProfileAt(c1.np), Num(strength)),
                 !.st.noise_reduction_events = @ + 1],
               "noise_suppression")

_apply_noise_suppression_hop(c, b) ==
    IF c.audio.len < fft_size \div 2 THEN c ELSE SuppressSpectrally(c, b)

_apply_noise_suppression(c, b) ==
    IF c.audio.len < fft_size THEN c ELSE SuppressSpectrally(c, b)

\* int(x) of a value in hundredths divided by d: truncation toward zero.
Trunc(n, d) == IF n >= 0 THEN n \div d ELSE -((-n) \div d)

_apply_echo_cancellation(c) ==
    IF ~IsNumber(c.s.echo_delay_ms)
    THEN Raise(c, "TypeError", "echo_cancellation")
    ELSE LET delay_samples ==
                 Trunc(Num(c.s.echo_delay_ms) * sample_rate, 100 * 1000)
         IN  IF delay_samples < c.audio.len
             THEN IF delay_samples = 0 \/ c.audio.len <= PadLenOrder2
                  THEN Raise(c, "ValueError", "echo_cancellation")
                  ELSE Produced([c EXCEPT !.st.echo_cancellations = @ + 1],
                                "echo_cancellation")
             ELSE c

\* 10 ** (db / 20) in thousandths, for the levels the settings take.
DbToLinear(db) ==
    CASE db = -2200 -> 79
      [] db = -2000 -> 100
      [] db = -1800 -> 126
      [] db = -1600 -> 158
      [] db = 0 -> 1000
      [] db = 600 -> 1995
      [] db = 3000 -> 31623

\* The float32 values next to 0.95, in units of 1e-8: float32(0.95) is
\* 0.949999988 and the next one up 0.950000048.
Float32Below95 == 94999999

Float32Above95 == 95000005

ClipGuard_LateThreshold(peak, up) ==
    IF peak > 990 THEN 99000000 ELSE peak * 100000

\* Lines 510-512: the peak of gained_audio after the clipping guard (units
\* of 1e-8), for a peak before it (thousandths).  The rescaled peak is
\* float32(peak * float32(0.95 / peak)), one of the two float32 values next
\* to 0.95; which one is an observation on the buffer (up).
ClipGuard(peak, up) ==
    IF peak > 950 THEN (IF up THEN Float32Above95 ELSE Float32Below95)
    ELSE peak * 100000

SmoothedGain_Unsmoothed(s, g, rms) ==
    Min((DbToLinear(Num(s.target_level_db)) * 1000000) \div rms,
        DbToLinear(Num(s.max_gain_db)))

\* self.gain_smoothed after line 504 (thousandths).
SmoothedGain(s, g, rms) ==
    LET target_linear == DbToLinear(Num(s.target_level_db))
        max_gain_linear == DbToLinear(Num(s.max_gain_db))
        required_gain == Min((target_linear * 1000000) \div rms, max_gain_linear)
        smoothing == Num(s.gain_smoothing)
    IN  (smoothing * g + (100 - smoothing) * required_gain) \div 100

_apply_automatic_gain_control_ZeroFloor(c, b) ==
    IF b.rms > 0
    THEN LET gain == SmoothedGain(c.s, c.g, b.rms)
         IN  Produced([c EXCEPT
                 !.g = gain,
                 !.peak = ClipGuard((b.peak * Abs(gain)) \div 1000, b.up),
                 !.st.gain_adjustments = @ + 1],
               "gain_control")
    ELSE c

\* Lines 489-518; b.rms is current_rms in units of 1e-6.
_apply_automatic_gain_control(c, b) ==
    IF b.rms > 1
    THEN LET gain == SmoothedGain(c.s, c.g, b.rms)
         IN  Produced([c EXCEPT
                 !.g = gain,
                 !.peak = ClipGuard((b.peak * Abs(gain)) \div 1000, b.up),
                 !.st.gain_adjustments = @ + 1],
               "gain_control")
    ELSE c

\* 20 * log10(|x| + 1e-8) in units of 1e-4 dB, for the sample amplitudes
\* followed (units of 1e-5).
AmplitudeDb(a) ==
    CASE a = 0 -> -1600000
      [] a = 5000 -> -260206
      [] a = 49999 -> -60208
      [] a = 50000 -> -60206
      [] a = 90000 -> -9151

\* Lines 531-540: gain_db of a sample (1e-4 dB) for a threshold (hundredths
\* of dB) and a ratio (hundredths).
GainDb(a, threshold_db, ratio) ==
    LET audio_db == AmplitudeDb(a)
        excess_db == audio_db - threshold_db * 100
    IN  IF audio_db > threshold_db * 100
        THEN (threshold_db * 100 + RoundDiv(excess_db * 100, ratio)) - audio_db
        ELSE 0

\* Line 541: 10 ** (gain_db / 20) in units of 1e-7, for the gains the
\* followed samples take at the threshold of -25 dB.
GainLinear(gain_db) ==
    CASE gain_db = -200707 -> 991893
      [] gain_db = -180637 -> 1249727
      [] gain_db = -160566 -> 1574599
      [] gain_db = -158162 -> 1618788
      [] gain_db = -158160 -> 1618825
      [] gain_db = -142345 -> 1942115
      [] gain_db = -142344 -> 1942138
      [] gain_db = -126529 -> 2329995
      [] gain_db = -126528 -> 2330022
      [] gain_db = -120424 -> 2499655
      [] gain_db = -94897 -> 3353629
      [] gain_db = -94896 -> 3353667
      [] gain_db = 0 -> 10000000
      [] gain_db = 189792 -> 88911922
      [] gain_db = 189794 -> 88913970
      [] gain_db = 240849 -> 160046065

EnvelopeNext_Overshoot(prev, target) ==
    IF target < prev
    THEN prev + RoundDiv((target - prev) * 3, 2)
    ELSE prev + RoundDiv(target - prev, 1600)

\* Lines 551-556: envelope[i] from envelope[i-1] and gain_linear[i] (units
\* of 1e-7, about the resolution of the float32 array that holds the
\* envelope).  coeff * prev + (1 - coeff) * target is
\* prev + (1 - coeff) * (target - prev); 1 - exp(-1/16) is 0.0606 = 2/33
\* for the attack and 1 - exp(-1/1600) is 0.000625 = 1/1600 for the release.
EnvelopeNext(prev, target) ==
    IF target < prev
    THEN prev + RoundDiv((target - prev) * 2, 33)
    ELSE prev + RoundDiv(target - prev, 1600)

RECURSIVE EnvelopeFrom(_, _)
EnvelopeFrom(prev, gains) ==
    IF gains = <<>> THEN <<>>
    ELSE LET e == EnvelopeNext(prev, Head(gains))
         IN  <<e>> \o EnvelopeFrom(e, Tail(gains))

\* Lines 547-556: envelope[0] is gain_linear[0].
Envelope(gains) ==
    IF gains = <<>> THEN <<>>
    ELSE <<Head(gains)>> \o EnvelopeFrom(Head(gains), Tail(gains))

_apply_compression(c, b) ==
    IF ~IsNumber(c.s.compressor_ratio) \/ ~IsNumber(c.s.compressor_threshold_db)
    THEN Raise(c, "TypeError", "compression")
    ELSE LET gain_linear ==
                 [i \in 1..Len(b.head) |->
                     GainLinear(GainDb(b.head[i], Num(c.s.compressor_threshold_db),
                                       Num(c.s.compressor_ratio)))]
         IN  Produced([c EXCEPT !.targets = gain_linear,
                                !.env = Envelope(gain_linear)],
                      "compression")

\* The eq_bands dicts the model uses, gains in hundredths of dB: the
\* constructor's, one with every gain at 0 dB, and one with every gain
\* within 0.1 dB of it.
EqBands(i) ==
    CASE i = EqBandsDefault ->
           [low |-> 0, mid_low |-> 200, mid |-> 300, mid_high |-> 100, high |-> -200]
      [] i = EqBandsFlat ->
           [low |-> 0, mid_low |-> 0, mid |-> 0, mid_high |-> 0, high |-> 0]
      [] i = EqBandsFine ->
           [low |-> 10, mid_low |-> -10, mid |-> 5, mid_high |-> 0, high |-> -10]

\* The bands in the order the dicts list them.
BandOrder == <<"low", "mid_low", "mid", "mid_high", "high">>

bands(rate) ==
    [low |-> <<80, 250>>, mid_low |-> <<250, 800>>, mid |-> <<800, 2500>>,
     mid_high |-> <<2500, 8000>>, high |-> <<8000, rate \div 2>>]

_design_eq_filters_IdentityAtNyquist(rate) ==
    [n \in DOMAIN bands(rate) |->
        IF 2 * bands(rate)[n][2] >= rate THEN "passthrough" ELSE "bandpass"]

\* self.eq_filters for self.sample_rate = rate: a 4th-order band-pass where
\* low_norm < 0.99 and high_norm > low_norm, else the pass-through
\* ([1.0], [1.0]).  nyquist is rate / 2; the comparisons are made on the
\* norms times 100 * rate.
_design_eq_filters(rate) ==
    [n \in DOMAIN bands(rate) |->
        LET low_norm == bands(rate)[n][1] * 200
            high_norm == Min(bands(rate)[n][2] * 200, 99 * rate)
        IN  IF low_norm < 99 * rate /\ high_norm > low_norm
            THEN "bandpass" ELSE "passthrough"]

eq_filters == _design_eq_filters(sample_rate)

\* padlen of filtfilt for a band's filter.
PadLen(filter) == IF filter = "bandpass" THEN PadLenBand4 ELSE PadLenPassThrough

RECURSIVE FilteredBands(_, _, _)
FilteredBands_AnyGain(order, gains, len) ==
    IF order = <<>> THEN <<>>
    ELSE LET band_name == Head(order)
             rest == FilteredBands(Tail(order), gains, len)
         IN  IF /\ band_name \in DOMAIN gains
                /\ band_name \in DOMAIN eq_filters
                /\ len > PadLen(eq_filters[band_name])
             THEN <<band_name>> \o rest
             ELSE rest

FilteredBands_StopsAtFailure(order, gains, len) ==
    IF order = <<>> THEN <<>>
    ELSE LET band_name == Head(order)
         IN  IF /\ band_name \in DOMAIN gains
                /\ band_name \in DOMAIN eq_filters
                /\ Abs(gains[band_name]) > 10
             THEN IF len > PadLen(eq_filters[band_name])
                  THEN <<band_name>> \o FilteredBands(Tail(order), gains, len)
                  ELSE <<>>
             ELSE FilteredBands(Tail(order), gains, len)

\* Lines 569-583: the bands of the dict that are filtered, in order: those
\* with a filter and a gain beyond 0.1 dB whose filtfilt does not raise.
FilteredBands(order, gains, len) ==
    IF order = <<>> THEN <<>>
    ELSE LET band_name == Head(order)
             rest == FilteredBands(Tail(order), gains, len)
         IN  IF /\ band_name \in DOMAIN gains
                /\ band_name \in DOMAIN eq_filters
                /\ Abs(gains[band_name]) > 10
                /\ len > PadLen(eq_filters[band_name])
             THEN <<band_name>> \o rest
             ELSE rest

\* The output differs from the input once a band-pass band has been mixed
\* in; the pass-through filter returns its input.
_apply_equalization(c) ==
    IF c.s.eq_bands.t # "dict"
    THEN Raise(c, "AttributeError", "equalization")
    ELSE LET filtered == FilteredBands(BandOrder, EqBands(c.s.eq_bands.v), c.audio.len)
             c1 == [c EXCEPT !.eq = filtered]
         IN  IF \E i \in 1..Len(filtered) : eq_filters[filtered[i]] = "bandpass"
             THEN Produced(c1, "equalization") ELSE c1

_reduce_breath_sounds(c) ==
    IF c.audio.len <= PadLenOrder4
    THEN Raise(c, "ValueError", "breath_reduction")
    ELSE Produced(c, "breath_reduction")

\* scipy.signal.butter(4, [4000.0, 8000.0], btype='band', fs=sample_rate)
\* requires 0 < Wn < fs/2 for both edges.
_apply_de_essing(c) ==
    IF ~(2 * 8000 < sample_rate)
    THEN Raise(c, "ValueError", "de_essing")
    ELSE IF c.audio.len <= PadLenBand4
    THEN Raise(c, "ValueError", "de_essing")
    ELSE Produced(c, "de_essing")

_enhance_voice_clarity(c) ==
    IF ~(2 * 2500 < sample_rate) \/ c.audio.len <= PadLenBand4
    THEN Raise(c, "ValueError", "voice_clarity")
    ELSE Produced(c, "voice_clarity")

\* The three sub-stages in order; the later ones do not run once one raised.
BreathStage(c) ==
    IF Truthy(c.s.breath_reduction) THEN _reduce_breath_sounds(c) ELSE c

DeEssStage(c) ==
    IF c.exc = "none" /\ Truthy(c.s.de_essing) THEN _apply_de_essing(c) ELSE c

ClarityStage(c) ==
    IF c.exc = "none" THEN _enhance_voice_clarity(c) ELSE c

_apply_voice_enhancement(c) == ClarityStage(DeEssStage(BreathStage(c)))

\* np.mean of the snr_improvement of adaptation_history[-10:], compared with
\* a threshold in dB: mean < x iff sum < x * n.
RecentImprovements(h) == LastN(h, AdaptWindow)

MeanBelow_OrEqual(h, x) == SumSeq(RecentImprovements(h)) <= x * Len(RecentImprovements(h))

MeanBelow(h, x) == SumSeq(RecentImprovements(h)) < x * Len(RecentImprovements(h))

MeanAbove(h, x) == SumSeq(RecentImprovements(h)) > x * Len(RecentImprovements(h))

AdaptedStrength_NoClamp(s, lr, h) ==
    IF MeanBelow(h, 1) THEN s + lr
    ELSE IF MeanAbove(h, 3) THEN s - lr
    ELSE s

AdaptedStrength_CeilingOne(s, lr, h) ==
    IF MeanBelow(h, 1) THEN Min(100, s + lr)
    ELSE IF MeanAbove(h, 3) THEN Max(30, s - lr)
    ELSE s

AdaptedStrength_FloorZero(s, lr, h) ==
    IF MeanBelow(h, 1) THEN Min(95, s + lr)
    ELSE IF MeanAbove(h, 3) THEN Max(0, s - lr)
    ELSE s

\* The strength in hundredths after one adaptive step from strength s with
\* learning rate lr, for the recent improvements of h.
AdaptedStrength(s, lr, h) ==
    IF MeanBelow(h, 1) THEN Min(95, s + lr)
    ELSE IF MeanAbove(h, 3) THEN Max(30, s - lr)
    ELSE s

AdaptCase(h) ==
    IF MeanBelow(h, 1) THEN "raise" ELSE IF MeanAbove(h, 3) THEN "lower" ELSE "hold"

_adapt_processing_settings(c) ==
    LET strength == c.s.noise_suppression_strength
        learning_rate == c.s.learning_rate
        c1 == [c EXCEPT !.prior = strength, !.adapt = AdaptCase(c.h)]
    IN  IF AdaptCase(c.h) = "hold" THEN c1
        ELSE IF ~IsNumber(strength) \/ ~IsNumber(learning_rate)
        THEN Raise(c1, "TypeError", "adaptation")
        ELSE [c1 EXCEPT !.s.noise_suppression_strength =
                 F(AdaptedStrength(Num(strength), Num(learning_rate), c.h))]

_update_adaptive_models_KeepsOldest(c, b) ==
    LET appended == Append(c.h, b.imp)
        c1 == [c EXCEPT !.h = IF Len(appended) > HistoryCap
                              THEN SubSeq(appended, 1, HistoryCap) ELSE appended]
    IN  IF Len(c1.h) >= AdaptWindow THEN _adapt_processing_settings(c1) ELSE c1

\* The timestamp and the settings snapshot of an entry are never read back;
\* an entry is its snr_improvement.
_update_adaptive_models(c, b) ==
    LET appended == Append(c.h, b.imp)
        c1 == [c EXCEPT !.h = IF Len(appended) > HistoryCap
                              THEN LastN(appended, HistoryCap) ELSE appended]
    IN  IF Len(c1.h) >= AdaptWindow THEN _adapt_processing_settings(c1) ELSE c1

\* Lines 334-369 on the input buffer, by the sign of each level: an all-zero
\* buffer has rms_level and peak_level 0 and
\* snr = 10 * log10(0 / (noise_power + 1e-8)), which numpy evaluates to -inf;
\* any other buffer has positive levels and a finite snr.
_analyze_audio_quality(b) ==
    [rms_level |-> IF b.zero THEN "zero" ELSE "positive",
     peak_level |-> IF b.zero THEN "zero" ELSE "positive",
     snr |-> IF b.zero THEN "-inf" ELSE "finite"]

\* Lines 830-873: no type is detected on a buffer shorter than the window
\* or without energy; on any other the detectors decide by its content.
_detect_noise_types(b) ==
    IF b.len < fft_size \/ b.zero THEN "empty" ELSE "by_content"

\* _assess_clarity filters with a 4th-order high-pass and
\* _assess_intelligibility with a 4th-order band-pass (300-3000 Hz) before
\* the record is built and stored.  metrics_history keeps one entry per
\* stored record; the fields the properties read are in c.metrics.
_generate_processing_metrics(c, b) ==
    IF c.audio.len <= PadLenOrder4 \/ c.audio.len <= PadLenBand4
       \/ ~(2 * 3000 < sample_rate)
    THEN Raise(c, "ValueError", "metrics")
    ELSE LET appended == Append(c.m, "metrics")
             analysis_metrics == _analyze_audio_quality(b)
         IN  [c EXCEPT
                 !.m = IF Len(appended) > MetricsCap
                       THEN LastN(appended, MetricsCap) ELSE appended,
                 !.metrics =
                     [signal_to_noise_ratio |-> analysis_metrics.snr,
                      rms_level |-> analysis_metrics.rms_level,
                      peak_level |-> analysis_metrics.peak_level,
                      detected_noise_types |-> _detect_noise_types(b)]]

\* The numbered steps of process_audio_stream, each on the context the
\* previous one left: a step is skipped when its toggle is off, and nothing
\* runs once a step has raised.
ModeOverlay(c, mode) == [c EXCEPT !.s = _adapt_settings_for_mode(c.s, mode)]

\* The call of a stage: c.ran lists the stages called, in order.
Enter(c, stage) == [c EXCEPT !.ran = Append(@, stage)]

Step2(c, b) ==
    IF c.exc = "none" /\ Truthy(c.s.noise_suppression_enabled)
    THEN _apply_noise_suppression(Enter(c, "noise_suppression"), b) ELSE c

Step3(c) ==
    IF c.exc = "none" /\ Truthy(c.s.echo_cancellation_enabled)
    THEN _apply_echo_cancellation(Enter(c, "echo_cancellation")) ELSE c

Step4(c, b) ==
    IF c.exc = "none" /\ Truthy(c.s.auto_gain_control)
    THEN _apply_automatic_gain_control(Enter(c, "gain_control"), b) ELSE c

Step5(c, b) ==
    IF c.exc = "none" /\ Truthy(c.s.compressor_enabled)
    THEN _apply_compression(Enter(c, "compression"), b) ELSE c

Step6(c) ==
    IF c.exc = "none" /\ Truthy(c.s.eq_enabled)
    THEN _apply_equalization(Enter(c, "equalization")) ELSE c

Step7(c) ==
    IF c.exc = "none" /\ Truthy(c.s.voice_enhancement)
    THEN _apply_voice_enhancement(Enter(c, "voice_enhancement")) ELSE c

Step8(c, b) ==
    IF c.exc = "none" /\ Truthy(c.s.adaptive_processing)
    THEN _update_adaptive_models(Enter(c, "adaptation"), b) ELSE c

MetricsStep(c, b) ==
    IF c.exc = "none" THEN _generate_processing_metrics(c, b) ELSE c

UpdateStatistics(c) ==
    IF c.exc # "none" THEN c
    ELSE [c EXCEPT !.st.total_samples_processed = @ + c.audio.len]

\* The body of process_audio_stream from the mode overlay to the counter
\* update, on the context c0 of the call.
Pipeline(c0, b, mode) ==
    UpdateStatistics(MetricsStep(
        Step8(Step7(Step6(Step5(Step4(Step3(Step2(
            ModeOverlay(c0, mode), b)), b), b))), b), b))

Context(st, b) ==
    [s |-> st.settings, np |-> st.noise_profile, g |-> st.gain_smoothed,
     h |-> st.adaptation_history, m |-> st.metrics_history,
     st |-> st.processing_stats,
     audio |-> [len |-> b.len, ops |-> <<>>, zero |-> b.zero],
     exc |-> "none", at |-> "", used |-> F(0), prior |-> F(0), adapt |-> "none",
     ran |-> <<>>, peak |-> -1, gain |-> -1, env |-> <<>>, targets |-> <<>>,
     eq |-> <<>>, metrics |-> NoMetrics, istft |-> -1, src |-> <<>>]

\* The instance after process_audio_stream(b, mode) on instance st, whether
\* the call returned or raised.
ProcessStep(st, b, mode) ==
    LET c == Pipeline(Context(st, b), b, mode)
    IN  [st EXCEPT
            !.settings = c.s,
            !.noise_profile = c.np,
            !.gain_smoothed = c.g,
            !.adaptation_history = c.h,
            !.metrics_history = c.m,
            !.processing_stats = c.st,
            !.last = [op |-> "process", mode |-> mode, buf |-> b, args |-> <<>>,
                      exc |-> c.exc, at |-> c.at,
                      seen |-> _adapt_settings_for_mode(st.settings, mode),
                      used |-> c.used, prior |-> c.prior, adapt |-> c.adapt,
                      ops |-> c.audio.ops, ran |-> c.ran, peak |-> c.peak,
                      gain |-> c.gain, env |-> c.env, targets |-> c.targets,
                      eq |-> c.eq, zero |-> c.exc = "none" /\ c.audio.zero,
                      metrics |-> c.metrics,
                      out |-> IF c.exc = "none" THEN c.audio.len ELSE -1,
                      istft |-> c.istft, src |-> c.src],
            !.since_reset = IF @ < 0 THEN @ ELSE @ + 1]

\* setattr(self.settings, key, value): a field takes any object; __class__
\* takes only a class, which no value here is.
RECURSIVE ApplyItems(_, _)
ApplyItems(r, items) ==
    IF items = <<>> \/ r.exc # "none" THEN r
    ELSE LET key == Head(items)[1]
             value == Head(items)[2]
         IN  IF ~hasattr(r.s, key) THEN ApplyItems(r, Tail(items))
             ELSE IF key \in DOMAIN r.s
             THEN ApplyItems([r EXCEPT !.s[key] = value], Tail(items))
             ELSE [r EXCEPT !.exc = "TypeError", !.at = key]

\* The instance after update_settings(new_settings); new_settings is the
\* dict's items in iteration order.
UpdateStep(st, new_settings) ==
    LET r == ApplyItems([s |-> st.settings, exc |-> "none", at |-> ""], new_settings)
    IN  [st EXCEPT
            !.settings = r.s,
            !.last = [NoCall EXCEPT !.op = "update_settings", !.args = new_settings,
                                    !.exc = r.exc, !.at = r.at]]

ResetStep_KeepsHistory(st) ==
    [st EXCEPT
        !.environment_model = EmptyEnvironment,
        !.last = [NoCall EXCEPT !.op = "reset_adaptation"],
        !.since_reset = 0]

\* The instance after reset_adaptation().
ResetStep(st) ==
    [st EXCEPT
        !.adaptation_history = <<>>,
        !.environment_model = EmptyEnvironment,
        !.last = [NoCall EXCEPT !.op = "reset_adaptation"],
        !.since_reset = 0]

-----------------------------------------------------------------------------
(* Two instances.  Every attribute is assigned on self in __init__ and the   *)
(* overlay table is a local of _adapt_settings_for_mode, so an instance owns *)
(* all of its state: no attribute is an object shared between instances.     *)

SharedAttributes_Settings == {"settings"}

\* The attributes whose object one instance would share with another.
SharedAttributes == {}

\* Instance other after a call left instance st: what they share follows.
Leak(other, st) ==
    [k \in DOMAIN other |-> IF k \in SharedAttributes THEN st[k] ELSE other[k]]

\* The second instance after __init__, and the calls made on it so far.
PeerConstructed == [st |-> Constructed, log |-> <<>>]

\* What the constructor leaves of the filter design at a sample rate.
Built(rate) == [sample_rate |-> rate, eq_filters |-> _design_eq_filters(rate)]

-----------------------------------------------------------------------------
(* The state machine *)

Current ==
    [settings |-> settings, noise_profile |-> noise_profile,
     gain_smoothed |-> gain_smoothed, compressor_envelope |-> compressor_envelope,
     adaptation_history |-> adaptation_history, metrics_history |-> metrics_history,
     processing_stats |-> processing_stats, environment_model |-> environment_model,
     last |-> last, since_reset |-> since_reset]

IsInstance(st) ==
    /\ settings = st.settings
    /\ noise_profile = st.noise_profile
    /\ gain_smoothed = st.gain_smoothed
    /\ compressor_envelope = st.compressor_envelope
    /\ adaptation_history = st.adaptation_history
    /\ metrics_history = st.metrics_history
    /\ processing_stats = st.processing_stats
    /\ environment_model = st.environment_model
    /\ last = st.last
    /\ since_reset = st.since_reset

process_audio_stream(b, mode) ==
    /\ budget > 0
    /\ LET st == ProcessStep(Current, b, mode)
       IN  /\ settings' = st.settings
           /\ noise_profile' = st.noise_profile
           /\ gain_smoothed' = st.gain_smoothed
           /\ adaptation_history' = st.adaptation_history
           /\ metrics_history' = st.metrics_history
           /\ processing_stats' = st.processing_stats
           /\ last' = st.last
           /\ since_reset' = st.since_reset
           /\ peer' = [peer EXCEPT !.st = Leak(@, st)]
    /\ budget' = budget - 1
    /\ UNCHANGED built
    /\ UNCHANGED <<compressor_envelope, environment_model>>

update_settings(new_settings) ==
    /\ budget > 0
    /\ LET st == UpdateStep(Current, new_settings)
       IN  /\ settings' = st.settings
           /\ last' = st.last
           /\ peer' = [peer EXCEPT !.st = Leak(@, st)]
    /\ budget' = budget - 1
    /\ UNCHANGED built
    /\ UNCHANGED <<noise_profile, gain_smoothed, compressor_envelope,
                   adaptation_history, metrics_history, processing_stats,
                   environment_model, since_reset>>

reset_adaptation ==
    /\ budget > 0
    /\ LET st == ResetStep(Current)
       IN  /\ adaptation_history' = st.adaptation_history
           /\ environment_model' = st.environment_model
           /\ last' = st.last
           /\ since_reset' = st.since_reset
           /\ peer' = [peer EXCEPT !.st = Leak(@, st)]
    /\ budget' = budget - 1
    /\ UNCHANGED built
    /\ UNCHANGED <<settings, noise_profile, gain_smoothed, compressor_envelope,
                   metrics_history, processing_stats>>

-----------------------------------------------------------------------------
(* Inputs *)

\* Buffer lengths: shorter than every filter's padding, shorter than the
\* transform window, and four hops long.
Lengths == {8, 300, 1024}

Buffers ==
    {Buf(b.len, b.voiced, b.rms, b.imp) :
        b \in {x \in [len : Lengths, voiced : BOOLEAN, rms : {0, 100000}, imp : {0, 10}] :
                  /\ x.voiced => x.len >= fft_size
                  /\ x.len = 8 => x.imp = 0 /\ x.rms = 0
                  /\ x.len = 300 => x.rms = 0
                  /\ x.len = 1024 => x.imp = 10}}

\* String literal 1 is "high".
Updates ==
    {<< <<"bogus", F(100)>> >>,
     << <<"bogus", F(100)>>, <<"echo_delay_ms", I(20)>> >>,
     << <<"__class__", I(1)>>, <<"learning_rate", F(5)>> >>,
     << <<"noise_suppression_strength", F(150)>> >>,
     << <<"noise_suppression_strength", F(-20)>>, <<"gain_smoothing", F(100)>> >>,
     << <<"noise_suppression_strength", S(1)>> >>,
     << <<"eq_bands", F(500)>> >>,
     << <<"de_essing", B(FALSE)>> >>}

Init == IsInstance(Constructed) /\ peer = PeerConstructed /\ built = Built(sample_rate) /\ budget = MaxCalls

Next ==
    \/ \E b \in Buffers, mode \in Modes : process_audio_stream(b, mode)
    \/ \E new_settings \in Updates : update_settings(new_settings)
    \/ reset_adaptation

Spec == Init /\ [][Next]_vars

-----------------------------------------------------------------------------
(* Warmed-up instances.  The adaptive controller acts from the tenth        *)
(* recorded buffer on, and only a call that gets past voice enhancement     *)
(* records one: at 16 kHz that is a call with voice_enhancement off, which  *)
(* NOISE_REDUCTION switches off and MUSIC leaves off.  A script is a        *)
(* sequence of calls; the instance it leaves is computed by the steps       *)
(* above, starting from the constructed instance.                           *)

P(b, mode) == [op |-> "process", b |-> b, mode |-> mode, args |-> <<>>]

R == [op |-> "reset_adaptation", b |-> NoBuffer, mode |-> "", args |-> <<>>]

U(args) == [op |-> "update_settings", b |-> NoBuffer, mode |-> "", args |-> args]

CallStep(st, call) ==
    CASE call.op = "process" -> ProcessStep(st, call.b, call.mode)
      [] call.op = "update_settings" -> UpdateStep(st, call.args)
      [] call.op = "reset_adaptation" -> ResetStep(st)

\* The instance after the calls of script, in order: the first half, then,
\* once its last call has been made, the second half on the instance it left.
RECURSIVE After(_, _)
After(st, script) ==
    IF script = <<>> THEN st
    ELSE IF Len(script) = 1 THEN CallStep(st, script[1])
    ELSE LET half == Len(script) \div 2
             mid == After(st, SubSeq(script, 1, half))
         IN  CASE mid.last.op = script[half].op ->
                     After(mid, SubSeq(script, half + 1, Len(script)))

Rep(n, call) == [i \in 1..n |-> call]

\* Buffers shorter than the window whose measured improvement is low, in the
\* dead band, or high.
WarmBuffers == {Buf(300, FALSE, 0, i) : i \in {0, 2, 10}}

WarmLengths == {0, AdaptWindow - 2, AdaptWindow - 1, AdaptWindow, MaxWarm}

\* One NOISE_REDUCTION call, then n calls in MUSIC or NOISE_REDUCTION mode.
ProcessScripts ==
    {<<>>} \cup
    {<<P(b, "noise_reduction")>> \o Rep(n, P(b, mode)) :
        b \in WarmBuffers, mode \in {"music", "noise_reduction"}, n \in WarmLengths}

\* A tuned instance, reset, then just short of the window again.
ResetScripts ==
    {<<P(b, "noise_reduction")>> \o Rep(AdaptWindow + 1, P(b, "music")) \o <<R>>
        \o Rep(k, P(b, "music")) :
        b \in WarmBuffers, k \in {AdaptWindow - 2, AdaptWindow - 1}}

AdaptBuffers == WarmBuffers \cup {Buf(1024, FALSE, 100000, 10)}

AdaptUpdates ==
    {<< <<"noise_suppression_strength", F(100)>> >>,
     << <<"noise_suppression_strength", F(20)>> >>,
     << <<"learning_rate", F(5)>> >>}

InitProcess ==
    /\ \E script \in ProcessScripts : IsInstance(After(Constructed, script))
    /\ peer = PeerConstructed /\ built = Built(sample_rate)
    /\ budget = MaxSteps

NextProcess ==
    \E b \in AdaptBuffers, mode \in Modes : process_audio_stream(b, mode)

\* Process calls only.
SpecProcess == InitProcess /\ [][NextProcess]_vars

InitAdapt ==
    /\ \E script \in ProcessScripts \cup ResetScripts :
           IsInstance(After(Constructed, script))
    /\ peer = PeerConstructed /\ built = Built(sample_rate)
    /\ budget = MaxSteps

NextAdapt ==
    \/ \E b \in AdaptBuffers, mode \in Modes : process_audio_stream(b, mode)
    \/ \E new_settings \in AdaptUpdates : update_settings(new_settings)
    \/ reset_adaptation

\* Every operation, around the adaptive controller's threshold.
SpecAdapt == InitAdapt /\ [][NextAdapt]_vars

-----------------------------------------------------------------------------
(* The gain stage.  A 300-sample buffer passes the noise suppressor (shorter *)
(* than the window) and the echo canceller (shorter than the 800-sample      *)
(* delay) untouched, so the gain stage sees the input itself.                *)

\* Buf with levels at the gain stage: rms (millionths), peak (thousandths)
\* and the rounding of the rescaled peak.
Level(b, rms, peak, up) == [b EXCEPT !.rms = rms, !.peak = peak, !.up = up]

\* Silent, at the 1e-6 threshold, level with headroom, level without,
\* and spiky (low RMS, full-scale peak).
GainBuffers ==
    {Level(Buf(300, FALSE, 0, 0), 0, 0, FALSE),
     Level(Buf(300, FALSE, 0, 0), 1, 1, FALSE),
     Level(Buf(300, FALSE, 0, 0), 100000, 900, FALSE),
     Level(Buf(300, FALSE, 0, 0), 100000, 1000, TRUE),
     Level(Buf(300, FALSE, 0, 0), 1000, 1000, FALSE),
     Level(Buf(300, FALSE, 0, 0), 1000, 1000, TRUE)}

GainUpdates ==
    {<< <<"gain_smoothing", F(0)>> >>,
     << <<"target_level_db", F(0)>> >>,
     << <<"max_gain_db", F(600)>> >>,
     << <<"auto_gain_control", B(FALSE)>> >>}

\* A new stream, one with a setting changed before its first buffer, and
\* one with a setting changed after a quiet buffer has raised the gain.
GainScripts ==
    {<<>>} \cup {<<U(u)>> : u \in GainUpdates}
    \cup {<<P(Level(Buf(300, FALSE, 0, 0), 1000, 1000, FALSE), "music"), U(u)>> :
              u \in GainUpdates}

InitGain ==
    /\ \E script \in GainScripts :
           IsInstance(After(Constructed, script))
    /\ peer = PeerConstructed /\ built = Built(sample_rate)
    /\ budget = MaxSteps

NextGain ==
    \/ \E b \in GainBuffers, mode \in Modes : process_audio_stream(b, mode)
    \/ \E new_settings \in GainUpdates : update_settings(new_settings)

\* Process calls and gain settings, around the clipping guard.
SpecGain == InitGain /\ [][NextGain]_vars

-----------------------------------------------------------------------------
(* The compressor.  The head of a buffer is its first samples as they reach  *)
(* the compressor; the envelope over them depends on no later sample.        *)

Headed(b, head) == [b EXCEPT !.head = head]

\* A loud sample, one a hair quieter, a louder one; loud to quiet; quiet to
\* loud.  0.05 is below the -25 dB threshold, the others above.
CompressBuffers ==
    {Headed(Level(Buf(300, FALSE, 0, 0), 100000, 900, FALSE), head) :
        head \in {<<50000, 49999, 90000>>, <<90000, 50000, 5000>>,
                  <<5000, 90000, 50000>>}}

CompressUpdates ==
    {<< <<"compressor_ratio", F(50)>> >>,
     << <<"compressor_ratio", F(100)>> >>,
     << <<"compressor_enabled", B(FALSE)>> >>}

InitCompress ==
    /\ \E script \in {<<>>} \cup {<<U(u)>> : u \in CompressUpdates} :
           IsInstance(After(Constructed, script))
    /\ peer = PeerConstructed /\ built = Built(sample_rate)
    /\ budget = MaxSteps

NextCompress ==
    \/ \E b \in CompressBuffers, mode \in Modes : process_audio_stream(b, mode)
    \/ \E new_settings \in CompressUpdates : update_settings(new_settings)

\* Process calls and compressor settings.
SpecCompress == InitCompress /\ [][NextCompress]_vars

-----------------------------------------------------------------------------
(* The equalizer *)

\* Shorter than a band filter's padding, longer, and a window or more.
EqBuffers == {Buf(8, FALSE, 0, 0), Buf(300, FALSE, 0, 0), Buf(1024, FALSE, 100000, 10)}

EqUpdates ==
    {<< <<"eq_bands", D(EqBandsFlat)>> >>,
     << <<"eq_bands", D(EqBandsFine)>> >>,
     << <<"eq_bands", D(EqBandsDefault)>> >>,
     << <<"eq_enabled", B(FALSE)>> >>}

InitEq ==
    /\ \E script \in {<<>>} \cup {<<U(u)>> : u \in EqUpdates} :
           IsInstance(After(Constructed, script))
    /\ peer = PeerConstructed /\ built = Built(sample_rate)
    /\ budget = MaxSteps

NextEq ==
    \/ \E b \in EqBuffers, mode \in Modes : process_audio_stream(b, mode)
    \/ \E new_settings \in EqUpdates : update_settings(new_settings)

\* Process calls and equalizer settings.
SpecEq == InitEq /\ [][NextEq]_vars

-----------------------------------------------------------------------------
(* The noise suppressor.  One bin of one frame is followed: its magnitude    *)
(* and, for the profile refresh, its mean over the first five frames.        *)

Probed(b, mag, mean) == [b EXCEPT !.mag = mag, !.mean = mean]

\* Unvoiced buffers refresh the profile from their own frames: no signal and
\* no noise, no signal under noise, signal equal to the noise, a faint
\* signal without noise, signal under stronger noise, signal without noise.
\* The voiced buffer is filtered against the stored profile.
SuppressBuffers ==
    {Probed(Buf(1024, FALSE, 100000, 10), m[1], m[2]) :
        m \in {<<0, 0>>, <<0, 100>>, <<100, 100>>, <<1, 0>>, <<100, 300>>, <<100, 0>>}}
    \cup {Probed(Buf(1024, TRUE, 100000, 10), 100, 100)}

SuppressUpdates ==
    {<< <<"noise_suppression_strength", F(0)>> >>,
     << <<"noise_suppression_strength", F(50)>> >>,
     << <<"noise_suppression_strength", F(100)>> >>}

InitSuppress ==
    /\ \E script \in {<<>>} \cup {<<U(u)>> : u \in SuppressUpdates} :
           IsInstance(After(Constructed, script))
    /\ peer = PeerConstructed /\ built = Built(sample_rate)
    /\ budget = MaxSteps

NextSuppress ==
    \/ \E b \in SuppressBuffers, mode \in Modes : process_audio_stream(b, mode)
    \/ \E new_settings \in SuppressUpdates : update_settings(new_settings)

\* Process calls on buffers of a window or more, and suppression strengths.
SpecSuppress == InitSuppress /\ [][NextSuppress]_vars

-----------------------------------------------------------------------------
(* Silence: buffers of zeros only.  Every stage maps zeros to zeros, and     *)
(* _calculate_snr returns 60.0 for both buffers, so the improvement is 0.    *)

Zeros(len) == [Buf(len, FALSE, 0, 0) EXCEPT !.zero = TRUE]

ZeroBuffers == {Zeros(len) : len \in Lengths}

ZeroUpdates ==
    {<< <<"noise_suppression_enabled", B(FALSE)>> >>,
     << <<"de_essing", B(FALSE)>> >>,
     << <<"adaptive_processing", B(FALSE)>> >>,
     << <<"eq_enabled", B(FALSE)>>, <<"compressor_enabled", B(FALSE)>> >>}

InitZero ==
    /\ \E script \in {<<>>} \cup {<<U(u)>> : u \in ZeroUpdates} :
           IsInstance(After(Constructed, script))
    /\ peer = PeerConstructed /\ built = Built(sample_rate)
    /\ budget = MaxSteps

NextZero ==
    \/ \E b \in ZeroBuffers, mode \in Modes : process_audio_stream(b, mode)
    \/ \E new_settings \in ZeroUpdates : update_settings(new_settings)

\* Process calls on silence, and the toggles of the stages.
SpecZero == InitZero /\ [][NextZero]_vars

-----------------------------------------------------------------------------
(* Long runs: instances whose adaptation history is about to fill.  The      *)
(* improvements arrive in a repeating pattern, so that an entry's place      *)
(* tells its arrival.                                                        *)

ImpCycle == <<0, 2, 10>>

\* n NOISE_REDUCTION calls; the i-th measures improvement ImpCycle[i mod 3].
LongRun(n) ==
    [i \in 1..n |-> P(Buf(300, FALSE, 0, ImpCycle[((i - 1) % 3) + 1]), "noise_reduction")]

LongLengths == {HistoryCap - 2, HistoryCap - 1, HistoryCap, HistoryCap + 1, HistoryCap + 3}

InitHistory ==
    /\ \E n \in LongLengths : IsInstance(After(Constructed, LongRun(n)))
    /\ peer = PeerConstructed /\ built = Built(sample_rate)
    /\ budget = MaxSteps

NextHistory ==
    \/ \E b \in WarmBuffers, mode \in Modes : process_audio_stream(b, mode)
    \/ reset_adaptation

\* Process calls and resets around the hundredth recorded buffer.
SpecHistory == InitHistory /\ [][NextHistory]_vars

-----------------------------------------------------------------------------
(* Two instances in one process.  The variables are instance A; peer is      *)
(* instance B, with the calls made on it.                                    *)

\* A call on instance B.
peer_call(call) ==
    /\ budget > 0
    /\ LET st == CallStep(peer.st, call)
           a == Leak(Current, st)
       IN  /\ peer' = [st |-> st, log |-> Append(peer.log, call)]
           /\ settings' = a.settings
           /\ noise_profile' = a.noise_profile
           /\ gain_smoothed' = a.gain_smoothed
           /\ compressor_envelope' = a.compressor_envelope
           /\ adaptation_history' = a.adaptation_history
           /\ metrics_history' = a.metrics_history
           /\ processing_stats' = a.processing_stats
           /\ environment_model' = a.environment_model
           /\ last' = a.last
           /\ since_reset' = a.since_reset
    /\ budget' = budget - 1
    /\ UNCHANGED built

\* A buffer that every stage changes state on, a short one, a voiced one.
PairBuffers ==
    {Buf(1024, FALSE, 100000, 10), Buf(300, FALSE, 0, 10), Buf(1024, TRUE, 100000, 10)}

PairUpdates ==
    {<< <<"noise_suppression_strength", F(20)>>, <<"de_essing", B(FALSE)>> >>,
     << <<"learning_rate", F(5)>>, <<"gain_smoothing", F(50)>> >>}

PairCalls ==
    {P(b, mode) : b \in PairBuffers, mode \in Modes}
    \cup {U(u) : u \in PairUpdates} \cup {R}

InitPair == IsInstance(Constructed) /\ peer = PeerConstructed /\ built = Built(sample_rate) /\ budget = MaxCalls

NextPair ==
    \/ \E b \in PairBuffers, mode \in Modes : process_audio_stream(b, mode)
    \/ \E new_settings \in PairUpdates : update_settings(new_settings)
    \/ reset_adaptation
    \/ \E call \in PairCalls : peer_call(call)

\* Calls on two instances, interleaved.
SpecPair == InitPair /\ [][NextPair]_vars

-----------------------------------------------------------------------------
(* The echo canceller, at delays of 0, 320 and 800 samples.                  *)

\* Shorter than the high-pass padding, shorter than the 20 ms delay, as long
\* as it, and longer than the default 50 ms delay.
EchoBuffers ==
    {Buf(8, FALSE, 0, 0), Buf(300, FALSE, 0, 10), Buf(320, FALSE, 0, 10),
     Buf(1024, FALSE, 100000, 10)}

EchoUpdates ==
    {<< <<"echo_delay_ms", I(0)>> >>,
     << <<"echo_delay_ms", I(20)>> >>,
     << <<"echo_cancellation_enabled", B(FALSE)>> >>}

InitEcho ==
    /\ \E script \in {<<>>} \cup {<<U(u)>> : u \in EchoUpdates} :
           IsInstance(After(Constructed, script))
    /\ peer = PeerConstructed /\ built = Built(sample_rate)
    /\ budget = MaxSteps

NextEcho ==
    \/ \E b \in EchoBuffers, mode \in Modes : process_audio_stream(b, mode)
    \/ \E new_settings \in EchoUpdates : update_settings(new_settings)

\* Process calls and echo settings.
SpecEcho == InitEcho /\ [][NextEcho]_vars

-----------------------------------------------------------------------------
(* Construction at other sample rates: the usual ones, those around the      *)
(* 8 kHz edge of the upper bands, and a sweep from 150 Hz to 16.5 kHz.       *)

SampleRates ==
    {8000, 11025, 16000, 16001, 16002, 16161, 16162, 22050, 32000, 44100, 48000, 96000}
    \cup {k * 150 : k \in 1..110}

\* AdvancedAudioProcessor(sample_rate = rate), as far as the filters go.
construct(rate) ==
    /\ built' = Built(rate)
    /\ UNCHANGED <<settings, noise_profile, gain_smoothed, compressor_envelope,
                   adaptation_history, metrics_history, processing_stats,
                   environment_model, last, since_reset, budget, peer>>

InitDesign ==
    IsInstance(Constructed) /\ peer = PeerConstructed /\ built = Built(sample_rate)
    /\ budget = MaxSteps

NextDesign == \E rate \in SampleRates : construct(rate)

\* Constructor calls only.
SpecDesign == InitDesign /\ [][NextDesign]_vars

-----------------------------------------------------------------------------
(* The controller's window: histories at the edges of the dead band, whose   *)
(* oldest entry differs from the later ones.                                 *)

\* Improvements of 0, 1, 3 and 4 dB.
WindowBuffers == {Buf(300, FALSE, 0, i) : i \in {0, 1, 3, 4}}

WindowLengths == {AdaptWindow - 3, AdaptWindow - 2, AdaptWindow - 1, AdaptWindow}

\* One NOISE_REDUCTION call measuring 0 or 4 dB, then n calls measuring 1 or
\* 3 dB each.
WindowScripts ==
    {<<P(Buf(300, FALSE, 0, first), "noise_reduction")>>
        \o Rep(n, P(Buf(300, FALSE, 0, i), mode)) :
        first \in {0, 4}, i \in {1, 3}, mode \in {"music", "noise_reduction"},
        n \in WindowLengths}

InitWindow ==
    /\ \E script \in WindowScripts : IsInstance(After(Constructed, script))
    /\ peer = PeerConstructed /\ built = Built(sample_rate)
    /\ budget = MaxSteps

NextWindow ==
    \E b \in WindowBuffers, mode \in Modes : process_audio_stream(b, mode)

\* Process calls around the tenth record and the edges of the dead band.
SpecWindow == InitWindow /\ [][NextWindow]_vars

-----------------------------------------------------------------------------
(* Buffer lengths: a whole number of hops or not, with each stage on or off. *)

LengthBuffers ==
    {Buf(8, FALSE, 0, 0), Buf(300, FALSE, 0, 10), Buf(600, FALSE, 100000, 10),
     Buf(1000, FALSE, 100000, 10), Buf(1000, TRUE, 100000, 10),
     Buf(1024, FALSE, 100000, 10)}

LengthUpdates ==
    {<< <<k, B(FALSE)>> >> :
        k \in {"noise_suppression_enabled", "echo_cancellation_enabled",
               "auto_gain_control", "compressor_enabled", "eq_enabled",
               "de_essing", "adaptive_processing"}}

InitLength ==
    /\ \E script \in {<<>>} \cup {<<U(u)>> : u \in LengthUpdates} :
           IsInstance(After(Constructed, script))
    /\ peer = PeerConstructed /\ built = Built(sample_rate)
    /\ budget = MaxSteps

NextLength ==
    \/ \E b \in LengthBuffers, mode \in Modes : process_audio_stream(b, mode)
    \/ \E new_settings \in LengthUpdates : update_settings(new_settings)

\* Process calls on buffers of several lengths, and the stage toggles.
SpecLength == InitLength /\ [][NextLength]_vars

-----------------------------------------------------------------------------
(* Properties *)

Strength == settings.noise_suppression_strength

\* The latest call was a process call that ran the adaptive controller to
\* its end, on a history of at least ten records.
ControllerRan ==
    /\ last.op = "process"
    /\ last.exc = "none"
    /\ last.adapt # "none"
    /\ Len(adaptation_history) >= AdaptWindow
    /\ IsNumber(last.prior) /\ IsNumber(Strength) /\ IsNumber(settings.learning_rate)

\* C1: process_audio_stream never raises on a 16 kHz pipeline: every process
\* call, in every mode and stream state, returns.
C1_ProcessNeverRaises == last.op = "process" => last.exc = "none"

\* C2: from the default settings, under process calls alone,
\* noise_suppression_strength stays in [0,1] and gain_smoothing in [0,1).
C2_ProcessKeepsBounds ==
    /\ IsNumber(Strength)
    /\ 0 <= Num(Strength) /\ Num(Strength) <= 100
    /\ IsNumber(settings.gain_smoothing)
    /\ 0 <= Num(settings.gain_smoothing) /\ Num(settings.gain_smoothing) < 100

\* C2 witness: a MUSIC-mode call whose adaptive step met the 0.95 ceiling.
C2_Witness ==
    /\ ControllerRan
    /\ last.mode = "music"
    /\ MeanBelow(adaptation_history, 1)
    /\ Num(last.prior) + Num(settings.learning_rate) > 95
    /\ Num(Strength) = 95

\* C3: under update_settings, process and reset_adaptation in any order, a
\* number stored in noise_suppression_strength lies in [0,1] and one stored
\* in gain_smoothing in [0,1): update_settings clamps what it is given.
C3_UpdateClamps ==
    /\ IsNumber(Strength) => 0 <= Num(Strength) /\ Num(Strength) <= 100
    /\ IsNumber(settings.gain_smoothing) =>
           0 <= Num(settings.gain_smoothing) /\ Num(settings.gain_smoothing) < 100

\* C4 as stated: with ten or more records whose latest ten average below
\* 1.0, the new strength is min(0.95, s + learning_rate) and not lower than
\* s, for every prior strength s in [0,1].
C4_RaiseNeverLowers ==
    (/\ ControllerRan
     /\ MeanBelow(adaptation_history, 1)
     /\ 0 <= Num(last.prior) /\ Num(last.prior) <= 100)
    => /\ Num(Strength) = Min(95, Num(last.prior) + Num(settings.learning_rate))
       /\ Num(Strength) >= Num(last.prior)

\* C4 amended: under the same condition the new strength is
\* min(0.95, s + learning_rate); it is not lower than s when s <= 0.95 and
\* the learning rate is not negative.
C4_RaiseStep ==
    (/\ ControllerRan
     /\ MeanBelow(adaptation_history, 1)
     /\ 0 <= Num(last.prior) /\ Num(last.prior) <= 100)
    => /\ Num(Strength) = Min(95, Num(last.prior) + Num(settings.learning_rate))
       /\ (Num(last.prior) <= 95 /\ Num(settings.learning_rate) >= 0)
              => Num(Strength) >= Num(last.prior)

\* C4 witness: a low-improvement history raised the strength by exactly one
\* learning-rate step, and another met a strength above the ceiling.
C4_Witness ==
    /\ ControllerRan
    /\ MeanBelow(adaptation_history, 1)
    /\ Num(settings.learning_rate) > 0
    /\ Num(Strength) = Num(last.prior) + Num(settings.learning_rate)
    /\ Num(Strength) < 95

\* C5 as stated: with ten or more records whose latest ten average above
\* 3.0, the new strength is max(0.3, s - learning_rate) and not higher than
\* s, for every prior strength s in [0,1].
C5_LowerNeverRaises ==
    (/\ ControllerRan
     /\ MeanAbove(adaptation_history, 3)
     /\ 0 <= Num(last.prior) /\ Num(last.prior) <= 100)
    => /\ Num(Strength) = Max(30, Num(last.prior) - Num(settings.learning_rate))
       /\ Num(Strength) <= Num(last.prior)

\* C5 amended: under the same condition the new strength is
\* max(0.3, s - learning_rate); it is not higher than s when s >= 0.3 and
\* the learning rate is not negative.
C5_LowerStep ==
    (/\ ControllerRan
     /\ MeanAbove(adaptation_history, 3)
     /\ 0 <= Num(last.prior) /\ Num(last.prior) <= 100)
    => /\ Num(Strength) = Max(30, Num(last.prior) - Num(settings.learning_rate))
       /\ (Num(last.prior) >= 30 /\ Num(settings.learning_rate) >= 0)
              => Num(Strength) <= Num(last.prior)

\* C5 witness: a high-improvement history lowered the strength by exactly
\* one learning-rate step.
C5_Witness ==
    /\ ControllerRan
    /\ MeanAbove(adaptation_history, 3)
    /\ Num(settings.learning_rate) > 0
    /\ Num(Strength) = Num(last.prior) - Num(settings.learning_rate)
    /\ Num(Strength) > 30

\* What a process call in the given mode shows its stages if that depends on
\* the mode alone: the mode's overlay, and for a mode without one what the
\* first call on a new pipeline shows.
FixedOverlay(mode) ==
    IF mode \in DOMAIN mode_settings THEN mode_settings[mode]
    ELSE [k \in OverlayFields |-> DefaultSettings[k]]

\* C6: in each of the five modes, the four overlay fields the stages of a
\* process call see are that mode's fixed values, whatever earlier calls
\* left in the settings.
C6_OverlayByModeAlone ==
    last.op = "process" =>
        \A k \in OverlayFields : last.seen[k] = FixedOverlay(last.mode)[k]

\* The value update_settings is given for field f, or old if it names none.
Given(items, f, old) ==
    LET at == {i \in 1..Len(items) : items[i][1] = f}
    IN  IF at = {} THEN old
        ELSE items[CHOOSE i \in at : \A j \in at : j <= i][2]

HasUnknownKey(items) == \E i \in 1..Len(items) : items[i][1] \notin Fields

\* C7: update_settings given a key that is no settings field raises nothing
\* and changes no field on its account; the fields the same call names are
\* set to what it gives.
C7_UnknownKeyIgnored ==
    [][(last'.op = "update_settings" /\ HasUnknownKey(last'.args))
         => /\ last'.exc = "none"
            /\ \A f \in Fields : settings'[f] = Given(last'.args, f, settings[f])]_vars

\* The declared type of a field: the annotation, which the constructor's
\* value has.
DeclaredType(f) == DefaultSettings[f].t

\* C8: update_settings leaves a field unchanged when the value given for it
\* is not of the field's declared type.
C8_TypeMismatchIgnored ==
    [][last'.op = "update_settings"
         => \A i \in 1..Len(last'.args) :
               LET f == last'.args[i][1]
                   value == last'.args[i][2]
               IN  (f \in Fields /\ value.t # DeclaredType(f))
                       => settings'[f] = settings[f]]_vars

\* C9: reset_adaptation empties the history, resets the environment model
\* and leaves every settings field as it was; after it the adaptive
\* controller does not run before ten further buffers have been processed.
C9_ResetAdaptation ==
    /\ [][last'.op = "reset_adaptation"
            => /\ adaptation_history' = <<>>
               /\ environment_model' = EmptyEnvironment
               /\ settings' = settings]_vars
    /\ []((since_reset >= 0 /\ last.op = "process" /\ last.adapt # "none")
            => since_reset >= AdaptWindow)

\* C9 witness: the tenth buffer after a reset is the one on which the
\* controller changes the strength again.
C9_Witness ==
    /\ since_reset = AdaptWindow
    /\ ControllerRan
    /\ Strength # last.prior

\* C10: on a buffer shorter than the transform window the noise suppressor
\* returns its input, raises nothing, and changes neither the stored noise
\* profile nor the noise-reduction counter.
C10_ShortBufferBypass ==
    [][(last'.op = "process" /\ last'.buf.len < fft_size)
         => /\ noise_profile' = noise_profile
            /\ processing_stats'.noise_reduction_events =
                   processing_stats.noise_reduction_events
            /\ \A i \in 1..Len(last'.ops) : last'.ops[i] # "noise_suppression"
            /\ last'.at # "noise_suppression"]_vars

\* C10 witness: a sub-window buffer reached the enabled suppressor of a
\* stream whose profile an earlier buffer had refreshed.
C10_Witness ==
    /\ last.op = "process"
    /\ last.buf.len < fft_size
    /\ last.buf.len >= fft_size \div 2
    /\ Truthy(last.seen.noise_suppression_enabled)
    /\ noise_profile.from # {}
    /\ processing_stats.noise_reduction_events > 0

\* The latest call was a process call whose gain stage produced a buffer
\* from a non-silent one.
GainStageActed ==
    /\ last.op = "process"
    /\ last.buf.rms > 1
    /\ last.peak >= 0

CompressorActed == last.op = "process" /\ Len(last.env) > 0

EqualizerCalledFlat ==
    /\ last.op = "process"
    /\ \E i \in 1..Len(last.ran) : last.ran[i] = "equalization"
    /\ last.seen.eq_bands.t = "dict"
    /\ \A n \in DOMAIN EqBands(last.seen.eq_bands.v) :
          Abs(EqBands(last.seen.eq_bands.v)[n]) <= 10

\* C13: with every band gain at 0 dB, or within 0.1 dB of it, the equalizer
\* filters no band and returns its input sample for sample.
C13_FlatEqIsIdentity ==
    EqualizerCalledFlat =>
        /\ last.eq = <<>>
        /\ \A i \in 1..Len(last.ops) : last.ops[i] # "equalization"
        /\ last.at # "equalization"

\* C13 witness: the equalizer was called with every gain at 0 dB on a buffer
\* long enough for each band's filter.
C13_Witness ==
    /\ EqualizerCalledFlat
    /\ last.seen.eq_bands = D(EqBandsFlat)
    /\ last.buf.len > PadLenBand4

\* The latest call was a process call whose noise suppressor filtered the
\* followed bin with a strength in [0,1].
BinFiltered ==
    /\ last.op = "process"
    /\ last.gain >= 0
    /\ IsNumber(last.used) /\ 0 <= Num(last.used) /\ Num(last.used) <= 100

\* C14: the gain the noise suppressor applies to a bin is at least 0.1, for
\* every ratio of signal to noise power, zero signal power included, and
\* every strength in [0,1].
C14_GainFloor == BinFiltered => last.gain >= 100

\* C14 witness: a bin without signal power was filtered with a positive
\* strength against a profile with noise, and got the floor gain.
C14_Witness ==
    /\ BinFiltered
    /\ last.buf.mag = 0
    /\ ProfileAt(noise_profile) > 0
    /\ Num(last.used) > 0
    /\ last.gain = 100

\* C15: a process call on a buffer of zeros, of any length, returns zeros
\* and a metrics record with RMS level 0, peak level 0, no noise type, and
\* a finite signal-to-noise ratio (the ceiling for no measurable noise);
\* no call faults.
C15_SilenceInSilenceOut ==
    (last.op = "process" /\ last.buf.zero) =>
        /\ last.exc = "none"
        /\ last.zero
        /\ last.metrics.rms_level = "zero"
        /\ last.metrics.peak_level = "zero"
        /\ last.metrics.detected_noise_types = "empty"
        /\ last.metrics.signal_to_noise_ratio = "finite"

\* The step is a process call whose adaptive controller was called.
Recorded == last'.op = "process" /\ \E i \in DOMAIN last'.ran : last'.ran[i] = "adaptation"

\* C16: the adaptation history never holds more than 100 entries; after a
\* recording call it holds the most recent min(n, 100) entries, n the number
\* recorded since it was last empty, in arrival order: the new entry last,
\* the earlier ones before it in their order, the oldest dropped when full.
C16_HistoryWindow ==
    /\ [](Len(adaptation_history) <= HistoryCap)
    /\ [][Recorded =>
            LET n == Len(adaptation_history)
                k == Len(adaptation_history')
            IN  /\ k = Min(n + 1, HistoryCap)
                /\ adaptation_history'[k] = last'.buf.imp
                /\ \A i \in 1..(k - 1) :
                       adaptation_history'[i] = adaptation_history[i + (n + 1 - k)]]_vars

\* C16 witness: more than 100 buffers were recorded without a reset, the
\* latest by the latest call, and the history holds 100.
C16_Witness ==
    /\ last.op = "process"
    /\ \E i \in DOMAIN last.ran : last.ran[i] = "adaptation"
    /\ since_reset < 0
    /\ processing_stats.total_samples_processed > HistoryCap * 300
    /\ Len(adaptation_history) = HistoryCap
    /\ budget < MaxSteps

StageOrder ==
    << <<"noise_suppression", "noise_suppression_enabled">>,
       <<"echo_cancellation", "echo_cancellation_enabled">>,
       <<"gain_control", "auto_gain_control">>,
       <<"compression", "compressor_enabled">>,
       <<"equalization", "eq_enabled">>,
       <<"voice_enhancement", "voice_enhancement">>,
       <<"adaptation", "adaptive_processing">> >>

RECURSIVE EnabledFrom(_, _)
EnabledFrom(i, s) ==
    IF i > Len(StageOrder) THEN <<>>
    ELSE (IF Truthy(s[StageOrder[i][2]]) THEN <<StageOrder[i][1]>> ELSE <<>>)
         \o EnabledFrom(i + 1, s)

\* C18: in every process call each enabled stage runs once, in the order
\* noise suppressor, echo canceller, gain control, compressor, equalizer,
\* voice enhancer, and the adaptive controller after them; a disabled
\* stage is left out and the others keep their order.
C18_EnabledStagesRunInOrder ==
    last.op = "process" => last.ran = EnabledFrom(1, last.seen)

\* The step is a process call whose noise suppressor filtered the buffer.
Suppressed ==
    /\ last'.op = "process"
    /\ \E i \in DOMAIN last'.ops : last'.ops[i] = "noise_suppression"

\* C19: when a process call ran the adaptive controller and the next call
\* on the instance is a process call, in any mode, the noise suppressor of
\* that call uses the strength the controller left.
C19_AdjustmentReachesNextBuffer ==
    [][(ControllerRan /\ Suppressed) => last'.used = Strength]_vars

\* C20: in VOICE_CHAT mode with the default settings, a process call on a
\* buffer of a transform window or more runs every enabled stage to its end,
\* the voice enhancer with its de-essing included, and returns a buffer and
\* a metrics record.
C20_VoiceChatRunsToCompletion ==
    (/\ last.op = "process"
     /\ last.mode = "voice_chat"
     /\ last.buf.len >= fft_size
     /\ last.seen = _adapt_settings_for_mode(DefaultSettings, "voice_chat"))
    => /\ last.exc = "none"
       /\ last.ran = EnabledFrom(1, last.seen)
       /\ \E i \in DOMAIN last.ops : last.ops[i] = "de_essing"
       /\ last.metrics # NoMetrics

\* C21: in every state, the constructed one included, the stored noise
\* profile has one entry per frequency bin of the transform (fft_size/2 + 1),
\* and the noise suppressor computes its gains against it on every buffer
\* of a window or more, refreshed or not.
C21_ProfileHasOneEntryPerBin ==
    /\ noise_profile.bins = fft_size \div 2 + 1
    /\ (last.op = "process" /\ last.buf.len >= fft_size
          /\ Truthy(last.seen.noise_suppression_enabled)
          /\ IsNumber(last.seen.noise_suppression_strength))
        => \E i \in DOMAIN last.ops : last.ops[i] = "noise_suppression"

\* The step is a process call whose noise suppressor transformed a buffer
\* of a window or more.
Transformed ==
    /\ last'.op = "process"
    /\ last'.buf.len >= fft_size
    /\ \E i \in DOMAIN last'.ran : last'.ran[i] = "noise_suppression"

\* C22: on a buffer of a window or more the noise suppressor replaces the
\* stored profile by the mean magnitude of the buffer's first five frames
\* exactly when none of them is flagged as voice, and otherwise leaves it as
\* it was; no other step (a shorter buffer, a mode switch, update_settings,
\* reset_adaptation) changes the profile.
C22_ProfileRefresh ==
    [][/\ (Transformed /\ ~last'.buf.voiced)
            => noise_profile' = [bins |-> fft_size \div 2 + 1, from |-> {last'.buf}]
       /\ (Transformed /\ last'.buf.voiced) => noise_profile' = noise_profile
       /\ ~Transformed => noise_profile' = noise_profile]_vars

\* C22 witness: a buffer with voice among its first five frames was
\* filtered against the profile an earlier buffer had left.
C22_Witness ==
    /\ last.op = "process"
    /\ last.buf.len >= fft_size
    /\ last.buf.voiced
    /\ \E i \in DOMAIN last.ops : last.ops[i] = "noise_suppression"
    /\ noise_profile.from # {}

\* C23: a process call on a buffer whose RMS at the gain stage is at or
\* below 1e-6 leaves the smoothed gain and the gain-adjustment counter as
\* they were, and the gain stage passes the buffer on unchanged.
C23_SilenceKeepsGain ==
    [][(last'.op = "process" /\ last'.buf.rms <= 1)
         => /\ gain_smoothed' = gain_smoothed
            /\ processing_stats'.gain_adjustments = processing_stats.gain_adjustments
            /\ \A i \in DOMAIN last'.ops : last'.ops[i] # "gain_control"
            /\ last'.peak = -1]_vars

\* C23 witness: a buffer at the 1e-6 threshold reached the enabled gain
\* stage of a stream whose gain an earlier buffer had moved.
C23_Witness ==
    /\ last.op = "process"
    /\ last.buf.rms = 1
    /\ \E i \in DOMAIN last.ran : last.ran[i] = "gain_control"
    /\ gain_smoothed # Constructed.gain_smoothed
    /\ processing_stats.gain_adjustments > 0

\* The step is a process call whose gain stage ran on a non-silent buffer
\* with numeric gain settings.
GainComputed ==
    /\ last'.op = "process"
    /\ last'.buf.rms > 1
    /\ \E i \in DOMAIN last'.ran : last'.ran[i] = "gain_control"

\* min(target / RMS, max gain) for the buffer and the settings of the step
\* (thousandths).
RequiredGain ==
    Min((DbToLinear(Num(last'.seen.target_level_db)) * 1000000) \div last'.buf.rms,
        DbToLinear(Num(last'.seen.max_gain_db)))

\* The smoothed gain after the step is alpha * (gain before) +
\* (1 - alpha) * required gain, the gain before being what the latest
\* non-silent buffer left (1.0 on a new stream): no other step changes it.
\* For alpha in [0,1) it lies between the gain before and the required gain.
GainSmoothingStep ==
    /\ GainComputed =>
         LET alpha == Num(last'.seen.gain_smoothing)
         IN  /\ gain_smoothed' =
                    (alpha * gain_smoothed + (100 - alpha) * RequiredGain) \div 100
             /\ (0 <= alpha /\ alpha < 100) =>
                    /\ Min(gain_smoothed, RequiredGain) <= gain_smoothed'
                    /\ gain_smoothed' <= Max(gain_smoothed, RequiredGain)
    /\ ~GainComputed => gain_smoothed' = gain_smoothed

\* C24 as stated: the smoothing step, and for alpha in [0,1) a smoothed gain
\* that never exceeds max(1.0, max gain).
C24_GainNeverAboveMax ==
    [][/\ GainSmoothingStep
       /\ (GainComputed /\ 0 <= Num(last'.seen.gain_smoothing)
             /\ Num(last'.seen.gain_smoothing) < 100)
            => gain_smoothed' <= Max(1000, DbToLinear(Num(last'.seen.max_gain_db)))]_vars

\* C24 amended: the smoothing step, and for alpha in [0,1) a smoothed gain
\* that never exceeds the larger of the gain before and the current max
\* gain; it can exceed max(1.0, max gain) after max_gain_db was lowered.
C24_GainSmoothing ==
    [][/\ GainSmoothingStep
       /\ (GainComputed /\ 0 <= Num(last'.seen.gain_smoothing)
             /\ Num(last'.seen.gain_smoothing) < 100)
            => gain_smoothed' <=
                  Max(gain_smoothed, DbToLinear(Num(last'.seen.max_gain_db)))]_vars

\* C24 witness: a second non-silent buffer moved a gain that the first had
\* already moved off 1.0, strictly between that gain and the required one.
C24_Witness ==
    /\ last.op = "process"
    /\ last.buf.rms > 1
    /\ last.exc = "none"
    /\ processing_stats.gain_adjustments >= 2
    /\ Num(last.seen.gain_smoothing) = 95
    /\ gain_smoothed # Constructed.gain_smoothed
    /\ gain_smoothed # SmoothedGain_Unsmoothed(last.seen, gain_smoothed, last.buf.rms)

\* The step is a process call that called the echo canceller with a numeric
\* delay.
EchoCalled ==
    /\ last'.op = "process"
    /\ \E i \in DOMAIN last'.ran : last'.ran[i] = "echo_cancellation"
    /\ IsNumber(last'.seen.echo_delay_ms)

\* C25: the echo canceller passes the buffer on unchanged and counts nothing
\* exactly when the delay in samples exceeds the buffer length; at every
\* other delay, the buffer length and 0 included, it subtracts the delayed
\* copy, counts an echo cancellation and raises nothing.
C25_EchoSkipsOnlyBeyondLength ==
    [][EchoCalled =>
         LET delay_samples == Trunc(Num(last'.seen.echo_delay_ms) * sample_rate, 100 * 1000)
             cancelled == \E i \in DOMAIN last'.ops : last'.ops[i] = "echo_cancellation"
         IN  /\ delay_samples > last'.buf.len =>
                    /\ ~cancelled
                    /\ last'.at # "echo_cancellation"
                    /\ processing_stats'.echo_cancellations =
                           processing_stats.echo_cancellations
             /\ delay_samples <= last'.buf.len =>
                    /\ cancelled
                    /\ last'.at # "echo_cancellation"
                    /\ processing_stats'.echo_cancellations =
                           processing_stats.echo_cancellations + 1]_vars

\* The latest call was a process call that called the equalizer with a
\* dict of band gains.
EqualizerCalled ==
    /\ last.op = "process"
    /\ \E i \in 1..Len(last.ran) : last.ran[i] = "equalization"
    /\ last.seen.eq_bands.t = "dict"

\* The band's filter cannot be applied to the buffer: filtfilt raises when
\* the buffer is not longer than the filter's padding.
FilterFails(n) == last.buf.len <= PadLen(eq_filters[n])

BandIndex(n) == CHOOSE i \in 1..Len(BandOrder) : BandOrder[i] = n

BandNames == {"low", "mid_low", "mid", "mid_high", "high"}

\* C27 as stated: at every sample rate each of the five bands has a filter,
\* the pass-through when its upper edge is at or above the Nyquist frequency
\* and a band-pass when it is below.
C27_IdentityAtNyquist ==
    /\ DOMAIN built.eq_filters = BandNames
    /\ \A n \in BandNames :
          IF 2 * bands(built.sample_rate)[n][2] >= built.sample_rate
          THEN built.eq_filters[n] = "passthrough"
          ELSE built.eq_filters[n] = "bandpass"

\* C27 amended: at every sample rate each of the five bands has a filter,
\* the pass-through exactly when its lower edge is at or above 0.99 of the
\* Nyquist frequency, and a band-pass otherwise (its upper edge capped at
\* 0.99 of Nyquist).
C27_IdentityAboveCap ==
    /\ DOMAIN built.eq_filters = BandNames
    /\ \A n \in BandNames :
          built.eq_filters[n] = "passthrough"
              <=> 200 * bands(built.sample_rate)[n][1] >= 99 * built.sample_rate

\* C27 witness: at 11025 Hz the band from 2500 to 8000 Hz, whose upper edge
\* is above Nyquist, has a band-pass, and the band from 8000 Hz up has the
\* pass-through.
C27_Witness ==
    /\ built.sample_rate = 11025
    /\ built.eq_filters["mid_high"] = "bandpass"
    /\ built.eq_filters["high"] = "passthrough"

\* The sum of the latest ten improvements of a history of ten or more.
LatestTenSum(h) == SumSeq(SubSeq(h, Len(h) - 9, Len(h)))

\* C28: a recording call leaves the strength as the call found it when the
\* history, the new record included, holds fewer than ten records or the
\* mean of its ten most recent improvements is between 1.0 and 3.0, ends
\* included; with ten or more records every recording call evaluates the
\* mean of the latest ten.
C28_DeadBandAndWindow ==
    [][Recorded =>
         LET h == adaptation_history'
         IN  /\ Len(h) < 10 =>
                    /\ last'.adapt = "none"
                    /\ settings'.noise_suppression_strength =
                           last'.seen.noise_suppression_strength
             /\ Len(h) >= 10 =>
                    /\ last'.adapt =
                           (IF LatestTenSum(h) < 10 THEN "raise"
                            ELSE IF LatestTenSum(h) > 30 THEN "lower" ELSE "hold")
                    /\ (10 <= LatestTenSum(h) /\ LatestTenSum(h) <= 30) =>
                           settings'.noise_suppression_strength =
                               last'.seen.noise_suppression_strength]_vars

\* C28 witness: the latest ten improvements average exactly 1.0 and the
\* strength was held, on a history whose older entries would have pulled
\* the mean below 1.0.
C28_Witness ==
    /\ last.op = "process"
    /\ last.adapt = "hold"
    /\ Len(adaptation_history) > 10
    /\ LatestTenSum(adaptation_history) = 10
    /\ SumSeq(adaptation_history) < Len(adaptation_history)
    /\ budget < MaxSteps

\* C29: after a process call whose compressor ran, compressor_envelope holds
\* the envelope value reached at the end of the buffer.  Every envelope
\* value lies between gains 10 ** (gain_db / 20), all above 0, so the value
\* held is above 0.
C29_EnvelopeStored ==
    (CompressorActed /\ last.exc = "none") => compressor_envelope > 0

====
